---- MODULE Spec2Model ----
(***************************************************************************)
(* Model of http-debug-proxy (src/main.go): a reverse proxy that logs the  *)
(* headers and the (gzip-decoded) body of every request and response and   *)
(* puts a fresh copy of the body back on the message.                      *)
(*                                                                         *)
(* Bodies are sequences of real byte values.  A body stream is an          *)
(* io.ReadCloser: the bytes it holds, the read position, the offset at     *)
(* which the underlying connection breaks (NoFail: never) and whether it   *)
(* has been closed.  compress/gzip is modelled on the wire format of RFC   *)
(* 1952 and RFC 1951, as Go's reader takes it in: the header with its      *)
(* optional fields, stored, fixed and dynamic Huffman blocks, the CRC-32   *)
(* and length trailer, several members in a row.  net/http is modelled as  *)
(* far as the proxy's messages pass through it: the transport asks for     *)
(* gzip and decompresses on its own account, and the forwarding engine     *)
(* aborts a response whose body it cannot copy.                            *)
(***************************************************************************)
EXTENDS Integers, Sequences, FiniteSets, TLC

\* ------------------------------------------------------------------ bounds
\* Number of proxied requests (one goroutine each) of the concurrent
\* specification.
NumRequests == 2
\* A broken body stream fails after 0..MaxFailAt bytes.
MaxFailAt == 1

\* ------------------------------------------------------------- byte streams
\* A Go reference (pointer, interface, slice or func value) is Nil or Ptr(x).
Nil == << >>
Ptr(x) == <<x>>
Deref(p) == p[1]
\* The failAt of a stream whose connection never breaks.
NoFail == -1

\* bytes.NewReader(b) under io.NopCloser: a fresh stream at offset 0.
NewReader(b) == [data |-> b, pos |-> 0, failAt |-> NoFail, closed |-> FALSE]

\* io.ReadAll(s): the bytes from the read position to the end, or to the
\* offset where the stream breaks; err says the read failed.  data is the
\* slice read, which io.ReadAll never returns as the nil slice.  s is the
\* stream afterwards.
ReadAll(s) ==
    IF s.closed
    THEN [data |-> << >>, err |-> TRUE, s |-> s]
    ELSE IF s.failAt # NoFail /\ s.failAt >= s.pos
    THEN [data |-> SubSeq(s.data, s.pos + 1, s.failAt), err |-> TRUE,
          s |-> [s EXCEPT !.pos = s.failAt]]
    ELSE [data |-> SubSeq(s.data, s.pos + 1, Len(s.data)), err |-> FALSE,
          s |-> [s EXCEPT !.pos = Len(s.data)]]

\* body.Close()
Close(s) == [s EXCEPT !.closed = TRUE]

\* --------------------------------------------------------------- CRC-32
\* A 32-bit word is a pair <<low 16 bits, high 16 bits>>.
\* a XOR b for 0 <= a, b < 2^16, bit by bit.
XorBit(a, b, p) == (((a \div p) + (b \div p)) % 2) * p
XorBits4(a, b, p) ==
    XorBit(a, b, p) + XorBit(a, b, 2 * p) + XorBit(a, b, 4 * p)
    + XorBit(a, b, 8 * p)
Xor(a, b) ==
    (XorBits4(a, b, 1) + XorBits4(a, b, 16))
    + (XorBits4(a, b, 256) + XorBits4(a, b, 4096))

XorWord(v, w) == <<Xor(v[1], w[1]), Xor(v[2], w[2])>>
ShiftRight4(w) == <<(w[1] \div 16) + 4096 * (w[2] % 16), w[2] \div 16>>
AllOnes == <<65535, 65535>>

\* The CRC-32 (IEEE, reflected polynomial 0xEDB88320) of the sixteen
\* four-bit values: the table of the nibble-wise algorithm.
CrcTable ==
    <<<<0, 0>>, <<4196, 7607>>, <<8392, 15214>>, <<12460, 9945>>,
      <<16784, 30428>>, <<20980, 27499>>, <<24920, 19890>>, <<28988, 20485>>,
      <<33568, 60856>>, <<37700, 61455>>, <<41960, 54998>>, <<45964, 52065>>,
      <<49840, 39780>>, <<53972, 34515>>, <<57976, 40970>>, <<61980, 48573>>>>

CrcNibble(w) == XorWord(CrcTable[(w[1] % 16) + 1], ShiftRight4(w))

\* crc32.Update for one byte b.
CrcByte(w, b) == CrcNibble(CrcNibble(<<Xor(w[1], b), w[2]>>))

\* crc32.Update over data[k..].  The next step is applied to the value v of
\* the step before it (bound by the set, so that the chain of updates is
\* not evaluated nested).
RECURSIVE CrcUpdate(_, _, _)
CrcUpdate(w, data, k) ==
    IF k > Len(data) THEN w
    ELSE CHOOSE r \in {CrcUpdate(v, data, k + 1) :
                          v \in {CrcByte(w, data[k])}} : TRUE

\* crc32.ChecksumIEEE(data), as the four little-endian bytes of the trailer.
Crc32LE(data) ==
    LET bytes(w) == <<w[1] % 256, w[1] \div 256, w[2] % 256, w[2] \div 256>>
    IN  bytes(XorWord(CrcUpdate(AllOnes, data, 1), AllOnes))

\* uint32(n) as four little-endian bytes (n < 2^31 here).
Le32(n) == <<n % 256, (n \div 256) % 256, (n \div 65536) % 256,
             (n \div 16777216) % 256>>

\* --------------------------------------------------------------- gzip
\* gzip.Reader.readString from offset q: the bytes up to a NUL, which has
\* to come within the 512 bytes of the reader's buffer.
readString(raw, q) ==
    LET nul == {k \in (q + 1)..Len(raw) : raw[k] = 0}
    IN  IF nul = {} \/ \A k \in nul : k - q > 512
        THEN [ok |-> FALSE, pos |-> q]
        ELSE [ok |-> TRUE, pos |-> CHOOSE k \in nul : \A m \in nul : k <= m]

\* readHeader, the optional fields that the flag byte flg announces, from
\* the offset q reached by h on: the extra field (flagExtra, 4) with its
\* length, the name (flagName, 8) and the comment (flagComment, 16), and the
\* low 16 bits of the CRC-32 of the header up to there (flagHdrCrc, 2).
Flag(flg, bit) == (flg \div bit) % 2 = 1
headerExtra(raw, flg, h) ==
    IF ~h.ok \/ ~Flag(flg, 4) THEN h
    ELSE IF Len(raw) - h.pos < 2 THEN [h EXCEPT !.ok = FALSE]
    ELSE IF Len(raw) - (h.pos + 2) < raw[h.pos + 1] + 256 * raw[h.pos + 2]
    THEN [h EXCEPT !.ok = FALSE]
    ELSE [h EXCEPT !.pos = @ + 2 + raw[h.pos + 1] + 256 * raw[h.pos + 2]]
headerString(raw, flg, bit, h) ==
    IF ~h.ok \/ ~Flag(flg, bit) THEN h ELSE readString(raw, h.pos)
headerCrc(raw, flg, pos, h) ==
    IF ~h.ok \/ ~Flag(flg, 2) THEN h
    ELSE IF Len(raw) - h.pos < 2 THEN [h EXCEPT !.ok = FALSE]
    ELSE IF <<raw[h.pos + 1], raw[h.pos + 2]>>
              # SubSeq(Crc32LE(SubSeq(raw, pos + 1, h.pos)), 1, 2)
    THEN [h EXCEPT !.ok = FALSE]
    ELSE [h EXCEPT !.pos = @ + 2]

\* gzip.Reader.readHeader at offset pos: ten bytes, the magic 1f 8b and the
\* deflate method 08, the flag byte, then the optional fields.  eof: no
\* byte was left (io.EOF, a clean end after a member; any other shortfall
\* is an unexpected EOF).  pos: the offset behind the header.
readHeader(raw, pos) ==
    IF Len(raw) - pos < 10
    THEN [ok |-> FALSE, eof |-> Len(raw) = pos, pos |-> pos]
    ELSE IF raw[pos + 1] # 31 \/ raw[pos + 2] # 139 \/ raw[pos + 3] # 8
    THEN [ok |-> FALSE, eof |-> FALSE, pos |-> pos]
    ELSE LET flg == raw[pos + 4]
             header(h) ==
                 IF h.ok THEN [ok |-> TRUE, eof |-> FALSE, pos |-> h.pos]
                 ELSE [ok |-> FALSE, eof |-> FALSE, pos |-> pos]
         IN  header(headerCrc(raw, flg, pos,
                      headerString(raw, flg, 16,
                        headerString(raw, flg, 8,
                          headerExtra(raw, flg,
                                      [ok |-> TRUE, pos |-> pos + 10])))))

\* -------------------------------------------------------------- flate
\* The decompressor reads raw a byte at a time and takes bits from the low
\* end of what it has read: r is the number of bytes read (f.roffset), p the
\* number of bits consumed, so that f.nb = 8 * r - p bits are buffered.
\* moreBits until n bits are buffered: the number of bytes then read, which
\* is beyond Len(raw) when the input ends first.
moreBits(r, p, n) == IF 8 * r - p >= n THEN r ELSE (p + n + 7) \div 8

\* The next n <= 16 bits of the buffer (f.b & (1<<n - 1)), those of bytes not
\* yet read being 0.
ByteRead(raw, r, k) == IF k <= r /\ k <= Len(raw) THEN raw[k] ELSE 0
Bits(raw, r, p, n) ==
    ((ByteRead(raw, r, (p \div 8) + 1)
        + 256 * ByteRead(raw, r, (p \div 8) + 2)
        + 65536 * ByteRead(raw, r, (p \div 8) + 3)) \div 2^(p % 8)) % 2^n

\* The n <= 15 low bits of v in reverse order: Huffman codes are packed
\* starting from their most significant bit.
RevBit(v, n, j) == IF j < n THEN ((v \div 2^j) % 2) * 2^(n - 1 - j) ELSE 0
Reverse(v, n) ==
    RevBit(v, n, 0) + RevBit(v, n, 1) + RevBit(v, n, 2) + RevBit(v, n, 3)
    + RevBit(v, n, 4) + RevBit(v, n, 5) + RevBit(v, n, 6) + RevBit(v, n, 7)
    + RevBit(v, n, 8) + RevBit(v, n, 9) + RevBit(v, n, 10) + RevBit(v, n, 11)
    + RevBit(v, n, 12) + RevBit(v, n, 13) + RevBit(v, n, 14)

\* huffmanDecoder.init(lengths), lengths[s + 1] being the code length of
\* symbol s (0: unused).  count: the number of codes of each length.
\* nextcode: the first code of length n.  ok: the coding is complete, or is
\* the single code of length 1, or is empty.  table: the canonical code of
\* each symbol in use.
CountLen(lengths, n) ==
    Cardinality({s \in DOMAIN lengths : lengths[s] = n})
count(lengths) ==
    <<CountLen(lengths, 1), CountLen(lengths, 2), CountLen(lengths, 3),
      CountLen(lengths, 4), CountLen(lengths, 5), CountLen(lengths, 6),
      CountLen(lengths, 7), CountLen(lengths, 8), CountLen(lengths, 9),
      CountLen(lengths, 10), CountLen(lengths, 11), CountLen(lengths, 12),
      CountLen(lengths, 13), CountLen(lengths, 14), CountLen(lengths, 15)>>
CodesBelow(c, n, i) == IF i < n THEN c[i] * 2^(n - i) ELSE 0
nextcode(c, n) ==
    CodesBelow(c, n, 1) + CodesBelow(c, n, 2) + CodesBelow(c, n, 3)
    + CodesBelow(c, n, 4) + CodesBelow(c, n, 5) + CodesBelow(c, n, 6)
    + CodesBelow(c, n, 7) + CodesBelow(c, n, 8) + CodesBelow(c, n, 9)
    + CodesBelow(c, n, 10) + CodesBelow(c, n, 11) + CodesBelow(c, n, 12)
    + CodesBelow(c, n, 13) + CodesBelow(c, n, 14)
Lengths(c) == {n \in 1..15 : c[n] > 0}
MinOf(S) == IF S = {} THEN 0 ELSE CHOOSE n \in S : \A m \in S : n <= m
MaxOf(S) == IF S = {} THEN 0 ELSE CHOOSE n \in S : \A m \in S : m <= n
huffmanInitCounted(lengths, c) ==
    LET max == MaxOf(Lengths(c))
        code == IF max = 0 THEN 0 ELSE nextcode(c, max) + c[max]
    IN  [ok |-> max = 0 \/ code = 2^max \/ (code = 1 /\ max = 1),
         min |-> MinOf(Lengths(c)),
         lens |-> Lengths(c),
         table |->
            {[sym |-> s - 1, len |-> lengths[s],
              code |-> nextcode(c, lengths[s])
                       + Cardinality({t \in DOMAIN lengths :
                                        t < s /\ lengths[t] = lengths[s]})] :
                s \in {s \in DOMAIN lengths : lengths[s] > 0}}]
huffmanInit(lengths) ==
    CHOOSE h \in {huffmanInitCounted(lengths, c) : c \in {count(lengths)}} : TRUE

\* fixedHuffmanDecoder: the literal/length code of a fixed block.
fixedLengths ==
    [s \in 1..288 |-> IF s <= 144 THEN 8 ELSE IF s <= 256 THEN 9
                      ELSE IF s <= 280 THEN 7 ELSE 8]
fixedHuffmanDecoder == huffmanInit(fixedLengths)

\* decompressor.huffSym(h) with want bits asked for (h.min at first): read
\* until that many bits are buffered, look the buffer up, and read on when
\* the code found is longer than what is buffered.  ok is FALSE when the
\* input ends or no code matches.
RECURSIVE huffSym(_, _, _, _, _)
huffSym(raw, r, p, h, want) ==
    IF moreBits(r, p, want) > Len(raw)
    THEN [ok |-> FALSE, sym |-> 0, r |-> Len(raw), p |-> p]
    ELSE LET r1 == moreBits(r, p, want)
             hit == {e \in {[len |-> n,
                              code |-> Reverse(Bits(raw, r1, p, n), n)] :
                                n \in h.lens} :
                       \E t \in h.table : t.len = e.len /\ t.code = e.code}
         IN  IF hit = {}
             THEN [ok |-> FALSE, sym |-> 0, r |-> r1, p |-> p]
             ELSE LET e == CHOOSE t \in h.table :
                             \E c \in hit : t.len = c.len /\ t.code = c.code
                  IN  IF e.len <= 8 * r1 - p
                      THEN [ok |-> TRUE, sym |-> e.sym, r |-> r1,
                            p |-> p + e.len]
                      ELSE huffSym(raw, r1, p, h, e.len)

\* The state of the decompressor between two steps: out is what it has
\* written (the dictionary; the inputs stay below its 32 KiB window), ok is
\* FALSE once f.err is an error, done is TRUE at the end of a block.
Failed(st) == [st EXCEPT !.ok = FALSE]

\* huffmanBlock, the length of a match: the base length and the number of
\* extra bits of length symbol v in 257..285.
matchLength(v) ==
    IF v < 265 THEN v - (257 - 3)
    ELSE IF v < 269 THEN v * 2 - (265 * 2 - 11)
    ELSE IF v < 273 THEN v * 4 - (269 * 4 - 19)
    ELSE IF v < 277 THEN v * 8 - (273 * 8 - 35)
    ELSE IF v < 281 THEN v * 16 - (277 * 16 - 67)
    ELSE IF v < 285 THEN v * 32 - (281 * 32 - 131)
    ELSE 258
lengthExtraBits(v) ==
    IF v < 265 THEN 0 ELSE IF v < 269 THEN 1 ELSE IF v < 273 THEN 2
    ELSE IF v < 277 THEN 3 ELSE IF v < 281 THEN 4 ELSE IF v < 285 THEN 5
    ELSE 0

\* The distance symbol of a match: five bits in reverse in a fixed block
\* (f.hd == nil), else a symbol of the distance code hd.
NoDecoder ==
    [ok |-> TRUE, min |-> 0, lens |-> {}, table |-> {}, fixed |-> TRUE]
distSym(raw, r, p, hd) ==
    IF "fixed" \in DOMAIN hd
    THEN IF moreBits(r, p, 5) > Len(raw)
         THEN [ok |-> FALSE, sym |-> 0, r |-> Len(raw), p |-> p]
         ELSE [ok |-> TRUE, sym |-> Reverse(Bits(raw, moreBits(r, p, 5), p, 5), 5),
               r |-> moreBits(r, p, 5), p |-> p + 5]
    ELSE huffSym(raw, r, p, hd, hd.min)

\* copyHistory: length bytes from dist bytes back, a byte at a time, so
\* that a match may run into the bytes it writes.
copyHistory(out, dist, length) ==
    out \o [j \in 1..length |-> out[Len(out) - dist + 1 + ((j - 1) % dist)]]

\* huffmanBlock from the distance symbol d of a match of the given length
\* on: the extra bits of the distance, the check against the history, the
\* copy.
matchStep(raw, st, length, d) ==
    IF ~d.ok \/ d.sym >= 30 THEN Failed(st)
    ELSE LET nb == IF d.sym < 4 THEN 0 ELSE (d.sym - 2) \div 2
             r1 == moreBits(d.r, d.p, nb)
             dist == IF d.sym < 4 THEN d.sym + 1
                     ELSE 2^(nb + 1) + 1 + (d.sym % 2) * 2^nb
                          + Bits(raw, r1, d.p, nb)
         IN  IF r1 > Len(raw) THEN Failed(st)
             ELSE IF dist > Len(st.out) THEN Failed(st)
             ELSE [st EXCEPT !.r = r1, !.p = d.p + nb,
                             !.out = copyHistory(@, dist, length)]

\* huffmanBlock for the literal/length symbol s just read: a literal is
\* written, 256 ends the block, a length symbol starts a match.
symbolStep(raw, hd, st, s) ==
    IF ~s.ok THEN Failed(st)
    ELSE IF s.sym < 256
    THEN [st EXCEPT !.r = s.r, !.p = s.p, !.out = @ \o <<s.sym>>]
    ELSE IF s.sym = 256
    THEN [st EXCEPT !.r = s.r, !.p = s.p, !.done = TRUE]
    ELSE IF s.sym >= 286 THEN Failed(st)
    ELSE LET n == lengthExtraBits(s.sym)
             r1 == moreBits(s.r, s.p, n)
         IN  IF r1 > Len(raw) THEN Failed(st)
             ELSE CHOOSE t \in
                    {matchStep(raw, st,
                               matchLength(s.sym) + Bits(raw, r1, s.p, n), d) :
                        d \in {distSym(raw, r1, s.p + n, hd)}} : TRUE

\* decompressor.huffmanBlock: symbol after symbol until the end of the block
\* or an error.
RECURSIVE huffmanBlock(_, _, _, _)
huffmanBlock(raw, hl, hd, st) ==
    IF ~st.ok \/ st.done THEN st
    ELSE CHOOSE end \in
           {huffmanBlock(raw, hl, hd, t) :
               t \in {symbolStep(raw, hd, st, s) :
                        s \in {huffSym(raw, st.r, st.p, hl, hl.min)}}} : TRUE

\* readHuffman, the code lengths: codeOrder is the order in which the
\* lengths of the code length code are sent, three bits each from bit p on.
codeOrder == <<16, 17, 18, 0, 8, 7, 9, 6, 10, 5, 11, 4, 12, 3, 13, 2, 14, 1, 15>>
codebits(raw, r, p, nclen) ==
    [s \in 1..19 |->
        IF \E i \in 1..nclen : codeOrder[i] = s - 1
        THEN Bits(raw, r,
                  p + 3 * ((CHOOSE i \in 1..nclen : codeOrder[i] = s - 1) - 1), 3)
        ELSE 0]

\* readHuffman for the code length symbol x just read, n lengths being
\* wanted in st.bits: a length, or a repeat of the last length (16) or of 0
\* (17, 18) with its count in the bits that follow.
lengthStep(raw, n, st, x) ==
    IF ~x.ok THEN Failed(st)
    ELSE IF x.sym < 16
    THEN [st EXCEPT !.r = x.r, !.p = x.p, !.bits = @ \o <<x.sym>>]
    ELSE IF x.sym = 16 /\ Len(st.bits) = 0 THEN Failed(st)
    ELSE LET nb == IF x.sym = 16 THEN 2 ELSE IF x.sym = 17 THEN 3 ELSE 7
             r1 == moreBits(x.r, x.p, nb)
             rep == (IF x.sym = 18 THEN 11 ELSE 3) + Bits(raw, r1, x.p, nb)
             b == IF x.sym = 16 THEN st.bits[Len(st.bits)] ELSE 0
         IN  IF r1 > Len(raw) THEN Failed(st)
             ELSE IF Len(st.bits) + rep > n THEN Failed(st)
             ELSE [st EXCEPT !.r = r1, !.p = x.p + nb,
                             !.bits = @ \o [j \in 1..rep |-> b]]

RECURSIVE readLengths(_, _, _, _)
readLengths(raw, h1, n, st) ==
    IF ~st.ok \/ Len(st.bits) = n THEN st
    ELSE CHOOSE end \in
           {readLengths(raw, h1, n, t) :
               t \in {lengthStep(raw, n, st, x) :
                        x \in {huffSym(raw, st.r, st.p, h1, h1.min)}}} : TRUE

\* readHuffman from the lengths read on: the two decoders, the literal one
\* asking for at least the bits of the end-of-block symbol.
dynamicDecoders(nlit, ndist, st) ==
    IF ~st.ok THEN [ok |-> FALSE, r |-> st.r, p |-> st.p]
    ELSE LET hl == huffmanInit(SubSeq(st.bits, 1, nlit))
             hd == huffmanInit(SubSeq(st.bits, nlit + 1, nlit + ndist))
             eob == st.bits[256 + 1]
         IN  IF ~hl.ok \/ ~hd.ok THEN [ok |-> FALSE, r |-> st.r, p |-> st.p]
             ELSE [ok |-> TRUE, r |-> st.r, p |-> st.p,
                   hl |-> [hl EXCEPT !.min = IF @ < eob THEN eob ELSE @],
                   hd |-> hd]

\* decompressor.readHuffman: HLIT, HDIST and HCLEN, the code length code,
\* the code lengths, the decoders.
readHuffman(raw, r, p) ==
    IF moreBits(r, p, 14) > Len(raw) THEN [ok |-> FALSE, r |-> r, p |-> p]
    ELSE LET r1 == moreBits(r, p, 14)
             nlit == Bits(raw, r1, p, 5) + 257
             ndist == Bits(raw, r1, p + 5, 5) + 1
             nclen == Bits(raw, r1, p + 10, 4) + 4
             r2 == moreBits(r1, p + 14, 3 * nclen)
         IN  IF nlit > 286 \/ ndist > 30 \/ r2 > Len(raw)
             THEN [ok |-> FALSE, r |-> r, p |-> p]
             ELSE CHOOSE d \in
                    {IF ~h1.ok THEN [ok |-> FALSE, r |-> r, p |-> p]
                     ELSE dynamicDecoders(nlit, ndist,
                            readLengths(raw, h1, nlit + ndist,
                                [ok |-> TRUE, r |-> r2,
                                 p |-> p + 14 + 3 * nclen, bits |-> << >>])) :
                        h1 \in {huffmanInit(codebits(raw, r2, p + 14, nclen))}} :
                    TRUE

\* decompressor.dataBlock, r bytes being read: a stored block is LEN, NLEN =
\* ^LEN and LEN bytes, after the bits left of the header's byte.  The bytes
\* of a block that is cut short are written.
dataBlock(raw, r, st) ==
    IF Len(raw) - r < 4 THEN Failed(st)
    ELSE LET n == raw[r + 1] + 256 * raw[r + 2]
             nn == raw[r + 3] + 256 * raw[r + 4]
         IN  IF nn # 65535 - n THEN Failed(st)
             ELSE IF Len(raw) - (r + 4) < n
             THEN [Failed(st) EXCEPT !.out = @ \o SubSeq(raw, r + 5, Len(raw))]
             ELSE [st EXCEPT !.r = r + 4 + n, !.p = 8 * (r + 4 + n),
                             !.out = @ \o SubSeq(raw, r + 5, r + 4 + n),
                             !.done = TRUE]

\* decompressor.nextBlock and the block it starts: three bits, the final
\* flag and the type (0 stored, 1 fixed, 2 dynamic, 3 reserved).
block(raw, st) ==
    IF moreBits(st.r, st.p, 3) > Len(raw) THEN Failed(st)
    ELSE LET r == moreBits(st.r, st.p, 3)
             typ == Bits(raw, r, st.p + 1, 2)
             start == [st EXCEPT !.r = r, !.p = st.p + 3]
         IN  IF typ = 0 THEN dataBlock(raw, r, st)
             ELSE IF typ = 1
             THEN huffmanBlock(raw, fixedHuffmanDecoder, NoDecoder, start)
             ELSE IF typ = 2
             THEN CHOOSE end \in
                    {IF ~d.ok THEN Failed(st)
                     ELSE huffmanBlock(raw, d.hl, d.hd,
                                       [start EXCEPT !.r = d.r, !.p = d.p]) :
                        d \in {readHuffman(raw, r, st.p + 3)}} : TRUE
             ELSE Failed(st)

RECURSIVE blocks(_, _)
blocks(raw, st) ==
    CHOOSE end \in
      {IF ~t.ok \/ Bits(raw, moreBits(st.r, st.p, 3), st.p, 1) = 1 THEN t
       ELSE blocks(raw, [t EXCEPT !.done = FALSE]) :
          t \in {block(raw, st)}} : TRUE

\* flate: the blocks of one deflate stream from offset pos on.  data is
\* what the decompressor has written when it stops, which on an error is
\* the output of the blocks before it and what the block in error had
\* written; pos is the offset behind the last byte read.
inflate(raw, pos) ==
    CHOOSE f \in
      {[data |-> st.out, ok |-> st.ok, pos |-> st.r] :
          st \in {blocks(raw, [ok |-> TRUE, done |-> FALSE, r |-> pos,
                               p |-> 8 * pos, out |-> << >>])}} : TRUE

\* io.ReadAll over a gzip.Reader whose first header ended at offset pos:
\* each member's deflate stream, then its trailer (CRC-32 and length of the
\* member's output), then the next member's header, until the input ends
\* cleanly on a member boundary.  data is what ReadAll has read when it
\* stops; ok is FALSE when it stops on an error.  gzipMember goes on from
\* the end f of a member's deflate stream, acc being the output of the
\* members before it.
RECURSIVE gzipReadAll(_, _, _)
gzipMember(raw, acc, f) ==
    IF ~f.ok
    THEN [data |-> acc \o f.data, ok |-> FALSE]
    ELSE IF Len(raw) - f.pos < 8
    THEN [data |-> acc \o f.data, ok |-> FALSE]
    ELSE IF SubSeq(raw, f.pos + 1, f.pos + 4) # Crc32LE(f.data)
            \/ SubSeq(raw, f.pos + 5, f.pos + 8) # Le32(Len(f.data))
    THEN [data |-> acc \o f.data, ok |-> FALSE]
    ELSE LET next(h) == IF h.ok THEN gzipReadAll(raw, h.pos, acc \o f.data)
                         ELSE [data |-> acc \o f.data, ok |-> h.eof]
         IN  next(readHeader(raw, f.pos + 8))
gzipReadAll(raw, pos, acc) ==
    CHOOSE g \in {gzipMember(raw, acc, f) : f \in {inflate(raw, pos)}} : TRUE

\* gzip.NewReader(bytes.NewReader(raw)) followed by io.ReadAll(gz).
\* opened: NewReader returned no error; ok: the read returned no error
\* either; data: what the read returned.
gunzip(raw) ==
    LET read(r) == [opened |-> TRUE, ok |-> r.ok, data |-> r.data]
        open(h) == IF ~h.ok THEN [opened |-> FALSE, ok |-> FALSE, data |-> << >>]
                   ELSE read(gzipReadAll(raw, h.pos, << >>))
    IN  open(readHeader(raw, 0))

\* ------------------------------------------------- body capture and restore
\* Mutant of decodeBody: a failed decompression read keeps what was
\* decompressed before the failure (lines 30-32 left out).
decodeBody_partial(rawBody, encoding) ==
    LET decoded(gz) == IF ~gz.opened THEN rawBody ELSE gz.data
    IN  IF encoding = "gzip" THEN decoded(gunzip(rawBody)) ELSE rawBody

\* Mutant of decodeBody: the encoding is compared without regard to case.
decodeBody_anyCase(rawBody, encoding) ==
    LET decoded(gz) == IF ~gz.opened THEN rawBody
                       ELSE IF ~gz.ok THEN rawBody
                       ELSE gz.data
    IN  IF encoding \in {"gzip", "GZIP", "Gzip"}
        THEN decoded(gunzip(rawBody))
        ELSE rawBody

\* Lines 22-36: the bytes to log for rawBody under the declared encoding.
decodeBody(rawBody, encoding) ==
    LET decoded(gz) == IF ~gz.opened THEN rawBody
                       ELSE IF ~gz.ok THEN rawBody
                       ELSE gz.data
    IN  IF encoding = "gzip" THEN decoded(gunzip(rawBody)) ELSE rawBody

\* Mutant of restore: the closure hands back a reader that was already read
\* to its end.
restore_drained(rawBody) == [NewReader(rawBody) EXCEPT !.pos = Len(rawBody)]

\* Lines 37-39: what the restore closure, which captured rawBody, returns
\* when called.
restore(rawBody) == NewReader(rawBody)

\* Mutant of readAndMaybeDecompressBody: the stream is closed after a
\* successful read only, and a failed read hands on what it had read.
readAndMaybeDecompressBody_leaky(body, encoding) ==
    LET r == ReadAll(body)
    IN  IF r.err
        THEN [rawBody |-> Ptr(r.data), decodedBody |-> Nil, restore |-> Nil,
              err |-> Ptr("read error"), body |-> r.s]
        ELSE [rawBody |-> Ptr(r.data),
              decodedBody |-> Ptr(decodeBody(r.data, encoding)),
              restore |-> Ptr(r.data), err |-> Nil, body |-> Close(r.s)]

\* readAndMaybeDecompressBody(body, encoding).  rawBody, decodedBody and
\* restore are Nil or a reference (restore: to the bytes its closure
\* captured); err is Nil or the read error; body is the stream passed in as
\* the call leaves it.
readAndMaybeDecompressBody(body, encoding) ==
    LET r == ReadAll(body)
        closed == Close(r.s)
    IN  IF r.err
        THEN [rawBody |-> Nil, decodedBody |-> Nil, restore |-> Nil,
              err |-> Ptr("read error"), body |-> closed]
        ELSE [rawBody |-> Ptr(r.data),
              decodedBody |-> Ptr(decodeBody(r.data, encoding)),
              restore |-> Ptr(r.data), err |-> Nil, body |-> closed]

\* ------------------------------------------------------------ HTTP messages
\* Header.Get(key): the value of the header, "" when it is absent.
Get(header, key) == IF key \in DOMAIN header THEN header[key] ELSE ""

\* Header.Del(key).
Del(header, key) == [k \in DOMAIN header \ {key} |-> header[k]]

NoHeader == [k \in {} |-> ""]
ContentEncoding(v) == [k \in {"Content-Encoding"} |-> v]
AcceptEncoding(v) == [k \in {"Accept-Encoding"} |-> v]

\* strings.ToLower, on the header values of the model.
ToLower(s) == CASE s = "GZIP" -> "gzip"
                [] s = "Gzip" -> "gzip"
                [] OTHER -> s
\* ascii.EqualFold(s, t): equal without regard to case.
EqualFold(s, t) == ToLower(s) = ToLower(t)

\* http.Transport asks the upstream for gzip on its own account when the
\* request names no encoding it accepts, asks for no range and is no HEAD;
\* it then writes Accept-Encoding: gzip, and undoes the compression of the
\* response itself.
addedGzip(r) ==
    /\ Get(r.Header, "Accept-Encoding") = ""
    /\ Get(r.Header, "Range") = ""
    /\ r.Method # "HEAD"

\* What http.Transport accepts to write on the wire: an http or https URL
\* with a host.  A proxy started with -t localhost:8181 has the target
\* scheme "localhost" and no host, and every outgoing request carries it.
Sendable(url) == url.Scheme \in {"http", "https"} /\ url.Host # ""

\* httputil.DumpRequestOut(req, false): the request line and headers as the
\* transport would write them, or an error for a request it would not
\* write.  The request's body is put back as it was before the call returns.
DumpRequestOut(r) ==
    IF Sendable(r.URL)
    THEN [dump |-> <<r.Method, r.URL.Host, r.URL.Path,
                     Get(r.Header, "Content-Encoding"),
                     IF addedGzip(r) THEN "gzip"
                     ELSE Get(r.Header, "Accept-Encoding")>>, err |-> Nil]
    ELSE [dump |-> << >>, err |-> Ptr("unsupported protocol scheme")]

\* httputil.DumpResponse(resp, false): the status line and headers, or an
\* error when the response cannot be written out.  The response's body is
\* put back as it was before the call returns.
DumpResponse(r) ==
    IF r.WellFormed
    THEN [dump |-> <<r.Status, Get(r.Header, "Content-Encoding")>>,
          err |-> Nil]
    ELSE [dump |-> << >>, err |-> Ptr("malformed response")]

\* One line of the process log (log.Printf) or one step of the forwarding
\* path, in the order they happen for one proxied request: text is a header
\* dump, data a body.
Entry(kind, text, data) == [kind |-> kind, text |-> text, data |-> data]

\* ------------------------------------------------------------------ inputs
\* "ok"
Plain_ok == <<111, 107>>
\* One gzip member whose single stored block holds  {"x":1}
Gz_json ==
    <<31, 139, 8, 0, 0, 0, 0, 0, 0, 255, 1, 7, 0, 248, 255,
      123, 34, 120, 34, 58, 49, 125, 92, 89, 235, 59, 7, 0, 0, 0>>
\* One gzip member of two stored blocks, "a" and "b".
Gz_a_b ==
    <<31, 139, 8, 0, 0, 0, 0, 0, 0, 255, 0, 1, 0, 254, 255, 97,
      1, 1, 0, 254, 255, 98, 109, 72, 131, 158, 2, 0, 0, 0>>
\* One gzip member holding no data.
Gz_empty ==
    <<31, 139, 8, 0, 0, 0, 0, 0, 0, 255, 1, 0, 0, 255, 255,
      0, 0, 0, 0, 0, 0, 0, 0>>
\* One gzip member holding "a".
Gz_a ==
    <<31, 139, 8, 0, 0, 0, 0, 0, 0, 255, 1, 1, 0, 254, 255, 97,
      67, 190, 183, 232, 1, 0, 0, 0>>
\* Two members in a row: the empty one, then "a".
Gz_two_members == Gz_empty \o Gz_a
\* Not gzip: the first magic byte is wrong, and a header cut short.
Gz_bad_magic == [Gz_a EXCEPT ![1] = 0]
Gz_short_header == <<31, 139>>
\* Gzip that breaks after the header: the second stored block of Gz_a_b is
\* cut before its data, the CRC-32 of Gz_a is wrong, a stray byte follows
\* the member.
Gz_truncated == SubSeq(Gz_a_b, 1, 21)
Gz_bad_crc == [Gz_a EXCEPT ![17] = 0]
Gz_trailing == Gz_a \o <<0>>
\* One gzip member whose fixed Huffman block holds  {"x":1}  (what gzip
\* itself writes for it), and one whose fixed Huffman block holds
\* "abcabcabc" as three literals and a match of length 6 at distance 3.
Gz_fixed ==
    <<31, 139, 8, 0, 0, 0, 0, 0, 2, 3, 171, 86, 170, 80, 178, 50, 172, 5, 0,
      92, 89, 235, 59, 7, 0, 0, 0>>
Gz_fixed_match ==
    <<31, 139, 8, 0, 0, 0, 0, 0, 0, 255, 75, 76, 74, 78, 4, 35, 0,
      24, 72, 45, 70, 9, 0, 0, 0>>
\* One gzip member whose dynamic Huffman block holds "aaaa" as a literal and
\* a match of length 3 at distance 1.
Gz_dynamic_match ==
    <<31, 139, 8, 0, 0, 0, 0, 0, 0, 255, 13, 192, 1, 1, 0, 0, 0, 128, 144,
      173, 254, 159, 40, 22, 69, 229, 152, 173, 4, 0, 0, 0>>
\* Gz_a under a header with every optional field: an extra field of two
\* bytes, the name "x", the comment "c" and the header CRC; and the same
\* with a wrong header CRC.
Gz_flags ==
    <<31, 139, 8, 30, 0, 0, 0, 0, 0, 255, 2, 0, 9, 9, 120, 0, 99, 0, 34, 120,
      1, 1, 0, 254, 255, 97, 67, 190, 183, 232, 1, 0, 0, 0>>
Gz_bad_header_crc == [Gz_flags EXCEPT ![19] = 35]

Bodies ==
    {<< >>, Plain_ok, Gz_json, Gz_a_b, Gz_empty, Gz_two_members,
     Gz_bad_magic, Gz_short_header, Gz_truncated, Gz_bad_crc, Gz_trailing,
     Gz_fixed, Gz_fixed_match, Gz_dynamic_match, Gz_flags, Gz_bad_header_crc}
ResponseBodies == {<< >>, Plain_ok, Gz_json, Gz_truncated, Gz_fixed}

\* A client declares the encoding of its body in any of these ways, and
\* names gzip as an encoding it accepts or names none.
Headers ==
    {NoHeader, AcceptEncoding("gzip"),
     ContentEncoding("gzip") @@ AcceptEncoding("gzip")}
    \cup {ContentEncoding(v) : v \in {"", "gzip", "GZIP", "deflate"}}
ResponseHeaders == {NoHeader, ContentEncoding("gzip"), ContentEncoding("GZIP")}

\* The body streams over the bytes of B: sound, or breaking after
\* 0..MaxFailAt bytes.
Streams(B) ==
    {[data |-> b, pos |-> 0, failAt |-> f, closed |-> FALSE] :
        <<b, f>> \in {x \in B \X ({NoFail} \cup 0..MaxFailAt) : x[2] <= Len(x[1])}}

\* The upstream URL of the proxy (-t): the default, and the host without a
\* scheme that url.Parse accepts as scheme "localhost".
GoodTarget == [Scheme |-> "http", Host |-> "localhost:8181"]
Targets == {GoodTarget, [Scheme |-> "localhost", Host |-> ""]}

\* A client request as the forwarding engine hands it on: no body (nil) for
\* a client request without one.
ClientRequest(method, path, header, body) ==
    [Method |-> method, Path |-> path, Header |-> header, Body |-> body]

ClientRequests ==
    {ClientRequest("GET", "/health", h, Nil) : h \in Headers}
    \cup {ClientRequest("POST", "/api", h, Ptr(s)) :
            <<h, s>> \in Headers \X Streams(Bodies)}

\* What the upstream does with a request: it is unreachable, or it answers
\* with a body whose length it declares (Content-Length), all of which
\* arrives unless the connection breaks before.
Unreachable == [reachable |-> FALSE, Status |-> "", Header |-> NoHeader,
                Body |-> NewReader(<< >>), WellFormed |-> TRUE]
Answer(header, body, wellFormed) ==
    [reachable |-> TRUE, Status |-> "200 OK", Header |-> header,
     Body |-> body, WellFormed |-> wellFormed]
Upstreams ==
    {Unreachable}
    \cup {Answer(h, s, w) :
            <<h, s, w>> \in ResponseHeaders
                            \X {s \in Streams(ResponseBodies) :
                                   s.failAt < Len(s.data)}
                            \X BOOLEAN}

Inputs == {[req |-> r, up |-> u] : <<r, u>> \in ClientRequests \X Upstreams}
NoInput == [req |-> ClientRequest("", "", NoHeader, Nil), up |-> Unreachable]

\* The stored-block gzip member of data (an encoder, to build inputs).
GzipStored(data) ==
    <<31, 139, 8, 0, 0, 0, 0, 0, 0, 255, 1,
      Len(data) % 256, Len(data) \div 256,
      255 - (Len(data) % 256), 255 - (Len(data) \div 256)>>
    \o data \o Crc32LE(data) \o Le32(Len(data))

\* The inputs of the concurrent specification: request i carries a body of
\* its own, plain or gzip, and its upstream answers with a body of its own
\* or is unreachable.
ConcInputs(i) ==
    {[req |-> ClientRequest("POST", "/api", ContentEncoding("gzip"),
                            Ptr(NewReader(b))),
      up |-> u] :
        <<b, u>> \in {<<64 + i>>, GzipStored(<<64 + i>>)}
                     \X {Unreachable,
                         Answer(NoHeader, NewReader(<<96 + i>>), TRUE)}}

Requests == 1..NumRequests

\* ------------------------------------------------------------------- state
VARIABLES
    target,     \* the upstream URL the proxy was started with
    in,         \* per request: the client's request and what the upstream does
    pc,         \* per request: where its goroutine stands
    req,        \* per request: the outgoing request (*http.Request)
    resp,       \* per request: the response (*http.Response) once received
    frame,      \* per call frame: rawBody, decodedBody, restore, err
    rt,         \* per request: calls of the underlying transport, its result
                \* and what loggingTransport.RoundTrip returned
    hook,       \* per request: calls of ModifyResponse and what it returned
    trace,      \* per request: its log lines and forwarding steps, in order
    wire,       \* per request: the body bytes the upstream received
    client,     \* per request: what the client received
    origReq,    \* per request: the client's body stream, as it now is
    origResp    \* per request: the body stream of the response the
                \* transport returned, as it now is

vars == <<target, in, pc, req, resp, frame, rt, hook, trace, wire, client,
          origReq, origResp>>

NoFrame == [rawBody |-> Nil, decodedBody |-> Nil, restore |-> Nil, err |-> Nil]
NoResponse == [Status |-> "", Header |-> NoHeader, Body |-> Nil,
               ContentLength |-> 0, WellFormed |-> TRUE]
NoResult == [resp |-> Nil, err |-> Nil]

\* httputil.NewSingleHostReverseProxy(target): the outgoing request is the
\* client's, its URL pointed at the target's scheme and host.
Director(c, t) ==
    [Method |-> c.Method,
     URL |-> [Scheme |-> t.Scheme, Host |-> t.Host, Path |-> c.Path],
     Header |-> c.Header, Body |-> c.Body]

\* Mutant of RoundTripEntry: RoundTrip sends first, without the dump.
RoundTripEntry_send == "send"

\* Line 91: the first thing loggingTransport.RoundTrip does.
RoundTripEntry == "dumpHTTPRequest"

\* Mutant of AfterRequestHeaders: a failed header dump ends the dump.
AfterRequestHeaders_return(err) ==
    IF err # Nil THEN "send" ELSE "captureRequestBody"

\* Lines 65-70 and 46-51: where dumpHTTPRequest and dumpHTTPResponse go on
\* after the header dump, whose error is err.
AfterRequestHeaders(err) == "captureRequestBody"
AfterResponseHeaders(err) == "captureResponseBody"

\* Mutant of requestBody: a request without a body is given an empty one.
requestBody_nilAsEmpty(r) ==
    IF r.Body = Nil THEN Ptr(NewReader(<< >>)) ELSE r.Body

\* Lines 70-74: the body dumpHTTPRequest checks against nil and captures.
requestBody(r) == r.Body

\* Mutant of Frame: the locals of every dump are kept in one shared place.
Frame_shared(i) == 1

\* The call frame that holds the locals of the dump of request i: each
\* goroutine runs dumpHTTPRequest and dumpHTTPResponse on its own stack.
Frame(i) == i

\* Mutant of RoundTripReturn: a transport error is turned into a response.
RoundTripReturn_synthetic(out) ==
    IF out.err # Nil
    THEN [resp |-> Ptr([Status |-> "200 OK", Header |-> NoHeader,
                        Body |-> Ptr(NewReader(<< >>)), ContentLength |-> 0,
                        WellFormed |-> TRUE]),
          err |-> Nil]
    ELSE out

\* Line 92: what RoundTrip returns for the underlying transport's result.
RoundTripReturn(out) == out

\* Mutant of ModifyResponse: the hook reports a body it could not read.
ModifyResponse_reportFailure(r) ==
    IF Deref(r.Body).closed THEN Ptr("read error") ELSE Nil

\* Lines 108-111: what the ModifyResponse hook returns for the response r
\* it has dumped.
ModifyResponse(r) == Nil

StartState(inputs, started) ==
    /\ pc = [i \in Requests |-> IF i \in started THEN RoundTripEntry ELSE "idle"]
    /\ in = inputs
    /\ req = [i \in Requests |-> Director(inputs[i].req, target)]
    /\ resp = [i \in Requests |-> NoResponse]
    /\ frame = [i \in Requests |-> NoFrame]
    /\ rt = [i \in Requests |-> [calls |-> 0, out |-> NoResult, ret |-> NoResult]]
    /\ hook = [i \in Requests |-> [calls |-> 0, err |-> Nil]]
    /\ trace = [i \in Requests |-> << >>]
    /\ wire = [i \in Requests |-> Nil]
    /\ client = [i \in Requests |-> Nil]
    /\ origReq = [i \in Requests |-> inputs[i].req.Body]
    /\ origResp = [i \in Requests |-> Nil]

\* One request, over the whole input domain.
Init ==
    /\ target \in Targets
    /\ \E x \in Inputs :
          StartState([i \in Requests |-> IF i = 1 THEN x ELSE NoInput], {1})

\* NumRequests requests at once, each with inputs of its own.
InitConc ==
    /\ target = GoodTarget
    /\ \E f \in [Requests -> UNION {ConcInputs(i) : i \in Requests}] :
          /\ \A i \in Requests : f[i] \in ConcInputs(i)
          /\ StartState(f, Requests)

\* ----------------------------------------------------------------- actions
Log(i, entries) == [trace EXCEPT ![i] = @ \o entries]
Goto(i, label) == [pc EXCEPT ![i] = label]
Locals(r) == [rawBody |-> r.rawBody, decodedBody |-> r.decodedBody,
              restore |-> r.restore, err |-> r.err]

\* dumpHTTPRequest, lines 64-69: the header dump, logged, or its error.
DumpRequestHeaders(i) ==
    /\ pc[i] = "dumpHTTPRequest"
    /\ LET d == DumpRequestOut(req[i])
       IN  /\ trace' = Log(i, IF d.err # Nil
                              THEN <<Entry("Error dumping request headers",
                                           d.err, << >>)>>
                              ELSE <<Entry("REQUEST HEADERS", d.dump, << >>)>>)
           /\ pc' = Goto(i, AfterRequestHeaders(d.err))
    /\ UNCHANGED <<target, in, req, resp, frame, rt, hook, wire, client,
                   origReq, origResp>>

\* dumpHTTPRequest, lines 70-74: return for a request without a body, else
\* read, close and decode the body.
CaptureRequestBody(i) ==
    /\ pc[i] = "captureRequestBody"
    /\ IF requestBody(req[i]) = Nil
       THEN /\ pc' = Goto(i, "send")
            /\ UNCHANGED <<req, frame, origReq>>
       ELSE \E r \in {readAndMaybeDecompressBody(
                          Deref(requestBody(req[i])),
                          Get(req[i].Header, "Content-Encoding"))} :
                /\ frame' = [frame EXCEPT ![Frame(i)] = Locals(r)]
                /\ req' = [req EXCEPT ![i].Body = Ptr(r.body)]
                /\ origReq' = [origReq EXCEPT ![i] = Ptr(r.body)]
                /\ pc' = Goto(i, "restoreRequestBody")
    /\ UNCHANGED <<target, in, resp, rt, hook, trace, wire, client, origResp>>

\* dumpHTTPRequest, lines 75-82: log the read error and return, or log the
\* decoded body and put the restored stream on the request.
RestoreRequestBody(i) ==
    /\ pc[i] = "restoreRequestBody"
    /\ LET f == frame[Frame(i)]
       IN  IF f.err # Nil
           THEN /\ trace' = Log(i, <<Entry("Error reading request body",
                                           f.err, << >>)>>)
                /\ UNCHANGED req
           ELSE /\ trace' = Log(i, IF f.decodedBody # Nil
                                   THEN <<Entry("REQUEST BODY", << >>,
                                                Deref(f.decodedBody))>>
                                   ELSE << >>)
                /\ req' = [req EXCEPT
                             ![i].Body = Ptr(restore(Deref(f.restore)))]
    /\ pc' = Goto(i, "send")
    /\ UNCHANGED <<target, in, resp, frame, rt, hook, wire, client, origReq,
                   origResp>>

\* The gzipReader that http.Transport puts in place of a response body it
\* asked to be compressed: a stream of the decompressed bytes, which breaks
\* where the gzip data or the connection under it does.  An upstream body
\* without a byte is a clean end.
gzipReader(body) ==
    LET avail == SubSeq(body.data, 1, IF body.failAt = NoFail
                                      THEN Len(body.data) ELSE body.failAt)
        clean(gz) == /\ body.failAt = NoFail
                     /\ IF gz.opened THEN gz.ok ELSE readHeader(avail, 0).eof
        reader(gz) ==
            [data |-> gz.data, pos |-> 0,
             failAt |-> IF clean(gz) THEN NoFail ELSE Len(gz.data),
             closed |-> FALSE]
    IN  reader(gunzip(avail))

\* The response http.Transport returns for the answer up to the request r:
\* the upstream's status, header and body, with the declared length; or,
\* when the transport asked for gzip itself and the answer has a body and
\* declares gzip (in any case of the letters), the header without
\* Content-Encoding, the body decompressing as it is read and the length
\* unknown (-1).
Response(r, up) ==
    IF /\ addedGzip(r)
       /\ Len(up.Body.data) # 0
       /\ EqualFold(Get(up.Header, "Content-Encoding"), "gzip")
    THEN [Status |-> up.Status, Header |-> Del(up.Header, "Content-Encoding"),
          Body |-> Ptr(gzipReader(up.Body)), ContentLength |-> -1,
          WellFormed |-> up.WellFormed]
    ELSE [Status |-> up.Status, Header |-> up.Header, Body |-> Ptr(up.Body),
          ContentLength |-> Len(up.Body.data), WellFormed |-> up.WellFormed]

\* http.DefaultTransport.RoundTrip(r) against the upstream up: an error for
\* a request it cannot write, for an unreachable upstream and for a request
\* body that cannot be read; else the response.  sent is the body the
\* upstream received, body the request's body afterwards (the transport
\* closes it in every case).
Transport(r, up) ==
    LET rd == IF r.Body = Nil THEN [data |-> << >>, err |-> FALSE]
              ELSE ReadAll(Deref(r.Body))
        closed == IF r.Body = Nil THEN Nil
                  ELSE IF Sendable(r.URL) /\ up.reachable THEN Ptr(Close(rd.s))
                  ELSE Ptr(Close(Deref(r.Body)))
    IN  IF ~Sendable(r.URL)
        THEN [result |-> [resp |-> Nil, err |-> Ptr("unsupported protocol scheme")],
              sent |-> Nil, body |-> closed]
        ELSE IF ~up.reachable
        THEN [result |-> [resp |-> Nil, err |-> Ptr("connection refused")],
              sent |-> Nil, body |-> closed]
        ELSE IF rd.err
        THEN [result |-> [resp |-> Nil, err |-> Ptr("read error")],
              sent |-> Ptr(rd.data), body |-> closed]
        ELSE [result |-> [resp |-> Ptr(Response(r, up)), err |-> Nil],
              sent |-> IF r.Body = Nil THEN Nil ELSE Ptr(rd.data),
              body |-> closed]

\* loggingTransport.RoundTrip, line 92: hand the request to the underlying
\* transport and return its result; the forwarding engine goes on to the
\* response hook or, on an error, to its error handler.
Send(i) ==
    /\ pc[i] = "send"
    /\ \E t \in {Transport(req[i], in[i].up)} :
       LET ret == RoundTripReturn(t.result)
       IN  /\ rt' = [rt EXCEPT ![i] = [calls |-> @.calls + 1, out |-> t.result,
                                       ret |-> ret]]
           /\ req' = [req EXCEPT ![i].Body = t.body]
           /\ wire' = [wire EXCEPT ![i] = t.sent]
           /\ origResp' = [origResp EXCEPT
                              ![i] = IF t.result.resp # Nil
                                     THEN Deref(t.result.resp).Body ELSE Nil]
           /\ resp' = [resp EXCEPT
                          ![i] = IF ret.err = Nil THEN Deref(ret.resp) ELSE @]
           /\ pc' = Goto(i, IF ret.err = Nil THEN "dumpHTTPResponse"
                            ELSE "errorHandler")
           /\ trace' = Log(i, <<Entry("send", << >>, << >>)>>)
    /\ UNCHANGED <<target, in, frame, hook, client, origReq>>

\* What a client has of a response: the status line (none: ""), the body
\* bytes, and whether the response came to its end or the connection was
\* cut before.
Delivered(status, body) ==
    [Status |-> status, body |-> body, complete |-> TRUE]
Aborted(status, body) ==
    [Status |-> status, body |-> body, complete |-> FALSE]

\* The forwarding engine's default error handler (main sets none): the
\* client gets 502 Bad Gateway.
ErrorHandler(i) ==
    /\ pc[i] = "errorHandler"
    /\ client' = [client EXCEPT
                     ![i] = Ptr(Delivered("502 Bad Gateway", << >>))]
    /\ trace' = Log(i, <<Entry("bad gateway", << >>, << >>)>>)
    /\ pc' = Goto(i, "done")
    /\ UNCHANGED <<target, in, req, resp, frame, rt, hook, wire, origReq,
                   origResp>>

\* dumpHTTPResponse, lines 45-50: the header dump, logged, or its error.
DumpResponseHeaders(i) ==
    /\ pc[i] = "dumpHTTPResponse"
    /\ LET d == DumpResponse(resp[i])
       IN  /\ trace' = Log(i, IF d.err # Nil
                              THEN <<Entry("Error dumping response headers",
                                           d.err, << >>)>>
                              ELSE <<Entry("RESPONSE HEADERS", d.dump, << >>)>>)
           /\ pc' = Goto(i, AfterResponseHeaders(d.err))
    /\ UNCHANGED <<target, in, req, resp, frame, rt, hook, wire, client,
                   origReq, origResp>>

\* dumpHTTPResponse, line 51: read, close and decode the body.
CaptureResponseBody(i) ==
    /\ pc[i] = "captureResponseBody"
    /\ \E r \in {readAndMaybeDecompressBody(
                     Deref(resp[i].Body),
                     Get(resp[i].Header, "Content-Encoding"))} :
           /\ frame' = [frame EXCEPT ![Frame(i)] = Locals(r)]
           /\ resp' = [resp EXCEPT ![i].Body = Ptr(r.body)]
           /\ origResp' = [origResp EXCEPT ![i] = Ptr(r.body)]
           /\ pc' = Goto(i, "restoreResponseBody")
    /\ UNCHANGED <<target, in, req, rt, hook, trace, wire, client, origReq>>

\* dumpHTTPResponse, lines 52-59: log the read error and return, or log the
\* decoded body and put the restored stream on the response; then the hook
\* returns (line 110) and the forwarding engine delivers the response, or
\* calls its error handler if the hook returned an error.
RestoreResponseBody(i) ==
    /\ pc[i] = "restoreResponseBody"
    /\ LET f == frame[Frame(i)]
           dumped == IF f.err # Nil THEN resp[i]
                     ELSE [resp[i] EXCEPT
                             !.Body = Ptr(restore(Deref(f.restore)))]
           ret == ModifyResponse(dumped)
       IN  /\ trace' = Log(i, IF f.err # Nil
                              THEN <<Entry("Error reading response body",
                                           f.err, << >>)>>
                              ELSE IF f.decodedBody # Nil
                              THEN <<Entry("RESPONSE BODY", << >>,
                                           Deref(f.decodedBody))>>
                              ELSE << >>)
           /\ resp' = [resp EXCEPT ![i] = dumped]
           /\ hook' = [hook EXCEPT ![i] = [calls |-> @.calls + 1, err |-> ret]]
           /\ pc' = Goto(i, IF ret = Nil THEN "deliver" ELSE "errorHandler")
    /\ UNCHANGED <<target, in, req, frame, rt, wire, client, origReq, origResp>>

\* ReverseProxy.flushInterval(res): a response of unknown length is flushed
\* to the client as it is copied (-1), any other when it is complete (0,
\* the FlushInterval main leaves unset).
flushInterval(r) == IF r.ContentLength = -1 THEN -1 ELSE 0

\* What reaches the client of a response whose body copy stopped on a read
\* error after the bytes copied: the forwarding engine panics with
\* http.ErrAbortHandler and the server cuts the connection.  The status
\* line and the bytes copied are still in the server's buffer then, and
\* lost, unless the response is one that is flushed as it is copied: the
\* flush that the copy starts on a timer may or may not run before the
\* copy stops.
AbortedCopies(r, copied) ==
    {Aborted("", << >>)}
    \cup (IF flushInterval(r) # 0 THEN {Aborted(r.Status, copied)} ELSE {})

\* The forwarding engine copies the response to the client: the status and
\* what the response's body yields.  When the body cannot be read to its
\* end it logs the read error and aborts the response.
Deliver(i) ==
    /\ pc[i] = "deliver"
    /\ LET r == ReadAll(Deref(resp[i].Body))
       IN  /\ resp' = [resp EXCEPT ![i].Body = Ptr(Close(r.s))]
           /\ IF r.err
              THEN /\ \E c \in AbortedCopies(resp[i], r.data) :
                         client' = [client EXCEPT ![i] = Ptr(c)]
                   /\ trace' = Log(i, <<Entry("read error during body copy",
                                              Ptr("read error"), << >>),
                                        Entry("abort", << >>, << >>)>>)
              ELSE /\ client' = [client EXCEPT
                                    ![i] = Ptr(Delivered(resp[i].Status,
                                                         r.data))]
                   /\ trace' = Log(i, <<Entry("deliver", << >>, << >>)>>)
    /\ pc' = Goto(i, "done")
    /\ UNCHANGED <<target, in, req, frame, rt, hook, wire, origReq, origResp>>

Next ==
    \E i \in Requests :
        \/ DumpRequestHeaders(i)
        \/ CaptureRequestBody(i)
        \/ RestoreRequestBody(i)
        \/ Send(i)
        \/ ErrorHandler(i)
        \/ DumpResponseHeaders(i)
        \/ CaptureResponseBody(i)
        \/ RestoreResponseBody(i)
        \/ Deliver(i)

\* One proxied request, over the whole input domain.
Spec == Init /\ [][Next]_vars
\* NumRequests proxied requests handled at once.
SpecConc == InitConc /\ [][Next]_vars

\* ------------------------------------------------------------ for the claims
Active == {i \in Requests : pc[i] # "idle"}
Kinds(t) == [k \in 1..Len(t) |-> t[k].kind]
HasKind(t, kind) == \E k \in 1..Len(t) : t[k].kind = kind
BodiesLogged(t, kind) == {t[k].data : k \in {j \in 1..Len(t) : t[j].kind = kind}}

\* The client's request body of request i, as the stream it was before the
\* proxy touched it, and the encoding the client declared.
HasRequestBody(i) == in[i].req.Body # Nil
RequestStream(i) == Deref(in[i].req.Body)
Sound(s) == s.failAt = NoFail
RequestEncoding(i) == Get(in[i].req.Header, "Content-Encoding")
\* The underlying transport returned a response for request i.
GotResponse(i) == rt[i].calls = 1 /\ rt[i].out.err = Nil

RequestDumped(i) == pc[i] \in {"send", "errorHandler", "dumpHTTPResponse",
                               "captureResponseBody", "restoreResponseBody",
                               "deliver", "done"}
ResponseDumped(i) == GotResponse(i) /\ pc[i] \in {"deliver", "done"}

\* The inputs that are gzip data, with what they hold (from the gzip tool,
\* not from the model's decoder).
GzipData == {Gz_json, Gz_a_b, Gz_empty, Gz_two_members, Gz_fixed,
             Gz_fixed_match, Gz_dynamic_match, Gz_flags}
Holds(b) ==
    CASE b = Gz_json -> <<123, 34, 120, 34, 58, 49, 125>>
      [] b = Gz_a_b -> <<97, 98>>
      [] b = Gz_empty -> << >>
      [] b = Gz_two_members -> <<97>>
      [] b = Gz_fixed -> <<123, 34, 120, 34, 58, 49, 125>>
      [] b = Gz_fixed_match -> <<97, 98, 99, 97, 98, 99, 97, 98, 99>>
      [] b = Gz_dynamic_match -> <<97, 97, 97, 97>>
      [] b = Gz_flags -> <<97>>

\* The response of request i as the underlying transport hands it to the
\* proxy, from the inputs: for a client that names no encoding it accepts
\* and an answer declared gzip (or GZIP) that has a body, the transport has
\* taken the declaration off and the body is the decompression, readable to
\* its end if the answer is gzip data that arrives whole; else header and
\* body are the upstream's.
Uncompressed(i) ==
    /\ "Accept-Encoding" \notin DOMAIN in[i].req.Header
    /\ Get(in[i].up.Header, "Content-Encoding") \in {"gzip", "GZIP"}
    /\ in[i].up.Body.data # << >>
ResponseReadable(i) ==
    /\ Sound(in[i].up.Body)
    /\ Uncompressed(i) => in[i].up.Body.data \in GzipData
ResponseBytes(i) ==
    IF Uncompressed(i) THEN Holds(in[i].up.Body.data) ELSE in[i].up.Body.data
ResponseEncoding(i) ==
    IF Uncompressed(i) THEN "" ELSE Get(in[i].up.Header, "Content-Encoding")
\* The body stream of the response as the transport returned it.
ResponseStream(i) == Deref(Deref(rt[i].out.resp).Body)

\* C1: round-trip identity.  Once a dump has captured a body, reading the
\* body now on the message to its end yields exactly the bytes the message
\* came with, without error, whatever the declared encoding and whether or
\* not decoding succeeded; the bytes the upstream and the client then
\* receive are those, never the ones the dump decoded.
C1_RoundTrip ==
    \A i \in Active :
        /\ (pc[i] = "send" /\ HasRequestBody(i) /\ Sound(RequestStream(i)))
              => /\ req[i].Body # Nil
                 /\ ReadAll(Deref(req[i].Body)).data = RequestStream(i).data
                 /\ ~ReadAll(Deref(req[i].Body)).err
        /\ (wire[i] # Nil /\ Sound(RequestStream(i)))
              => Deref(wire[i]) = RequestStream(i).data
        /\ (GotResponse(i) /\ ResponseReadable(i))
              => /\ ResponseStream(i).data = ResponseBytes(i)
                 /\ Sound(ResponseStream(i))
        /\ (pc[i] = "deliver" /\ ResponseReadable(i))
              => /\ ReadAll(Deref(resp[i].Body)).data = ResponseBytes(i)
                 /\ ~ReadAll(Deref(resp[i].Body)).err
        /\ (pc[i] = "done" /\ GotResponse(i) /\ ResponseReadable(i))
              => client[i] = Ptr(Delivered(in[i].up.Status, ResponseBytes(i)))

\* C1 witness: a gzip request body whose decoding succeeded was logged
\* decoded and reached the upstream as the original compressed bytes, and a
\* gzip response (to a client that accepts gzip) whose decoding failed
\* reached the client unchanged.
C1_Witness ==
    /\ pc[1] = "done"
    /\ RequestEncoding(1) = "gzip" /\ ResponseEncoding(1) = "gzip"
    /\ wire[1] = Ptr(Gz_json)
    /\ BodiesLogged(trace[1], "REQUEST BODY") = {Holds(Gz_json)}
    /\ client[1] = Ptr(Delivered("200 OK", Gz_truncated))
    /\ BodiesLogged(trace[1], "RESPONSE BODY") = {Gz_truncated}

\* What readAndMaybeDecompressBody is to log for the bytes b under the
\* declared encoding e, by the oracle.
Expected(b, e) == IF e = "gzip" /\ b \in GzipData THEN Holds(b) ELSE b

\* A reader over b that has been read to its end.
Drained(b) == [NewReader(b) EXCEPT !.pos = Len(b)]

\* The locals of the dump of request i hold a successful capture of b whose
\* decoded bytes are d.
Captured(i, b, d) ==
    LET f == frame[Frame(i)]
    IN  /\ f.err = Nil
        /\ f.rawBody = Ptr(b)
        /\ f.decodedBody = Ptr(d)
        /\ f.restore # Nil
        /\ ReadAll(restore(Deref(f.restore))) =
              [data |-> b, err |-> FALSE, s |-> Drained(b)]

\* C2: when the declared encoding is gzip, the decoded (logged) bytes of
\* valid gzip data are its decompression; when the gzip stream cannot be
\* opened or its read fails partway they are the whole raw bytes, not a
\* partial decompression, and the capture still returns no error and a
\* restore factory that yields the raw bytes.
C2_GzipDecode ==
    \A i \in Active :
        /\ (pc[i] = "restoreRequestBody" /\ RequestEncoding(i) = "gzip"
               /\ Sound(RequestStream(i)))
              => LET b == RequestStream(i).data
                 IN  Captured(i, b, IF b \in GzipData THEN Holds(b) ELSE b)
        /\ (pc[i] = "restoreResponseBody" /\ ResponseEncoding(i) = "gzip"
               /\ ResponseReadable(i))
              => LET b == ResponseBytes(i)
                 IN  Captured(i, b, IF b \in GzipData THEN Holds(b) ELSE b)
        /\ (RequestDumped(i) /\ HasRequestBody(i) /\ RequestEncoding(i) = "gzip"
               /\ Sound(RequestStream(i)))
              => LET b == RequestStream(i).data
                 IN  BodiesLogged(trace[i], "REQUEST BODY") =
                       {IF b \in GzipData THEN Holds(b) ELSE b}
        /\ (ResponseDumped(i) /\ ResponseEncoding(i) = "gzip"
               /\ ResponseReadable(i))
              => LET b == ResponseBytes(i)
                 IN  BodiesLogged(trace[i], "RESPONSE BODY") =
                       {IF b \in GzipData THEN Holds(b) ELSE b}

\* C2 witness: a gzip request body cut inside its second block, whose
\* decompression had produced a byte before it failed, was captured and
\* logged as the whole raw bytes, and a valid gzip response (a Huffman
\* block, to a client that accepts gzip) was captured as its decompression.
C2_Witness ==
    /\ pc[1] = "restoreResponseBody"
    /\ RequestEncoding(1) = "gzip" /\ ResponseEncoding(1) = "gzip"
    /\ HasRequestBody(1)
    /\ RequestStream(1).data = Gz_truncated /\ Sound(RequestStream(1))
    /\ BodiesLogged(trace[1], "REQUEST BODY") = {Gz_truncated}
    /\ gunzip(Gz_truncated) = [opened |-> TRUE, ok |-> FALSE, data |-> <<97>>]
    /\ Captured(1, Gz_fixed, Holds(Gz_fixed))

\* C3: when the declared encoding is absent, empty or any value other than
\* "gzip", nothing is decoded: the decoded (logged) bytes are the raw bytes,
\* also for raw bytes that are valid gzip data.
C3_NoDecode ==
    \A i \in Active :
        /\ (pc[i] = "restoreRequestBody" /\ RequestEncoding(i) # "gzip"
               /\ Sound(RequestStream(i)))
              => Captured(i, RequestStream(i).data, RequestStream(i).data)
        /\ (pc[i] = "restoreResponseBody" /\ ResponseEncoding(i) # "gzip"
               /\ ResponseReadable(i))
              => Captured(i, ResponseBytes(i), ResponseBytes(i))
        /\ (RequestDumped(i) /\ HasRequestBody(i) /\ RequestEncoding(i) # "gzip"
               /\ Sound(RequestStream(i)))
              => BodiesLogged(trace[i], "REQUEST BODY") = {RequestStream(i).data}
        /\ (ResponseDumped(i) /\ ResponseEncoding(i) # "gzip"
               /\ ResponseReadable(i))
              => BodiesLogged(trace[i], "RESPONSE BODY") = {ResponseBytes(i)}

\* C3 witness: valid gzip data declared as "GZIP" was captured on the
\* request and logged as the compressed bytes; the response, declared
\* "GZIP" by the upstream and decompressed by the transport for a client
\* that named no encoding, came to the dump without a declaration and was
\* logged and delivered as it came.
C3_Witness ==
    /\ pc[1] = "done"
    /\ RequestEncoding(1) = "GZIP" /\ HasRequestBody(1)
    /\ RequestStream(1).data = Gz_a_b /\ Gz_a_b \in GzipData
    /\ BodiesLogged(trace[1], "REQUEST BODY") = {Gz_a_b}
    /\ in[1].up.Header = ContentEncoding("GZIP")
    /\ in[1].up.Body.data = Gz_fixed
    /\ "Content-Encoding" \notin DOMAIN resp[1].Header
    /\ BodiesLogged(trace[1], "RESPONSE BODY") = {Holds(Gz_fixed)}
    /\ client[1] = Ptr(Delivered("200 OK", Holds(Gz_fixed)))

\* dumpHTTPRequest has returned for request i, and nothing has run since.
RequestJustDumped(i) == pc[i] = "send"

\* What a request without a body is left as by its dump, apart from the
\* header line of the log: no body block and no body error in the log, no
\* capture (the locals of the dump were never set, the client's stream is
\* as it was), and the request as the forwarding engine built it.
NoBodyUntouched(i) ==
    /\ ~HasKind(trace[i], "REQUEST BODY")
    /\ ~HasKind(trace[i], "Error reading request body")
    /\ frame[Frame(i)] = NoFrame
    /\ origReq[i] = in[i].req.Body
    /\ req[i] = Director(in[i].req, target)
    /\ req[i].Body = Nil

\* C4 as stated: dumpHTTPRequest logs the request-header block for every
\* request without a body, logs no body block, captures nothing and leaves
\* the request unmodified.
C4_AsStated ==
    \A i \in Active :
        (RequestJustDumped(i) /\ ~HasRequestBody(i))
            => /\ Kinds(trace[i]) = <<"REQUEST HEADERS">>
               /\ NoBodyUntouched(i)

\* C4, amended: for a request without a body dumpHTTPRequest logs one line,
\* the request-header block or, when the headers cannot be rendered, the
\* header failure in its place; it logs no body block, captures nothing and
\* leaves the request unmodified.
C4_NoBody ==
    \A i \in Active :
        (RequestJustDumped(i) /\ ~HasRequestBody(i))
            => /\ Kinds(trace[i]) =
                     IF Sendable(req[i].URL)
                     THEN <<"REQUEST HEADERS">>
                     ELSE <<"Error dumping request headers">>
               /\ Sendable(req[i].URL)
                     => trace[i][1].text = DumpRequestOut(req[i]).dump
               /\ NoBodyUntouched(i)

\* C4 witness: a GET without a body has been dumped, its header block
\* logged, and is about to be sent as it came.
C4_Witness ==
    /\ RequestJustDumped(1) /\ ~HasRequestBody(1)
    /\ Kinds(trace[1]) = <<"REQUEST HEADERS">>
    /\ req[1].Method = "GET" /\ req[1].Body = Nil
    /\ frame[1] = NoFrame

\* The body of request i in the concurrent specification, and what is to be
\* logged for it under its declared encoding, gzip.
OwnByte(i) == <<64 + i>>
OwnDecoded(i) ==
    IF RequestStream(i).data = GzipStored(OwnByte(i)) THEN OwnByte(i)
    ELSE RequestStream(i).data

\* C5: with NumRequests requests handled at once, in any interleaving, the
\* raw bytes, the decoded bytes and the restored stream of each request come
\* from its own body only, and the body forwarded for request i is the body
\* the client sent with request i.
C5_Isolation ==
    \A i \in Requests :
        /\ pc[i] = "restoreRequestBody"
              => Captured(i, RequestStream(i).data, OwnDecoded(i))
        /\ pc[i] = "send"
              => ReadAll(Deref(req[i].Body)).data = RequestStream(i).data
        /\ RequestDumped(i)
              => BodiesLogged(trace[i], "REQUEST BODY") = {OwnDecoded(i)}
        /\ wire[i] # Nil => wire[i] = Ptr(RequestStream(i).data)
        /\ pc[i] = "restoreResponseBody"
              => Captured(i, ResponseBytes(i), ResponseBytes(i))
        /\ (pc[i] = "done" /\ GotResponse(i))
              => client[i] = Ptr(Delivered("200 OK", ResponseBytes(i)))

\* C5 witness: requests 1 and 2 are both between capture and restore, each
\* with its own bytes captured, while neither has been sent.
C5_Witness ==
    /\ pc[1] = "restoreRequestBody" /\ pc[2] = "restoreRequestBody"
    /\ frame[Frame(1)].rawBody = Ptr(GzipStored(OwnByte(1)))
    /\ frame[Frame(1)].decodedBody = Ptr(OwnByte(1))
    /\ frame[Frame(2)].rawBody = Ptr(OwnByte(2))
    /\ wire[1] = Nil /\ wire[2] = Nil

IsPrefix(s, t) == Len(s) <= Len(t) /\ s = SubSeq(t, 1, Len(s))

\* The underlying transport will return a response for request i: it can
\* write the request, the upstream is reachable, and the body it is given
\* to send can be read.
WillGetResponse(i) ==
    /\ Sendable(Director(in[i].req, target).URL)
    /\ in[i].up.reachable
    /\ HasRequestBody(i) => Sound(RequestStream(i))

\* The steps of the lifecycle of request i, in order, as its inputs
\* determine them: a header line and, with a body, a body line of the
\* request dump, a failure line standing where the block could not be
\* produced; the send; then for a response the two lines of the response
\* dump and the delivery, or after a body that could not be read the
\* failed copy and the abort of the response; and without a response the
\* gateway error.
Lifecycle(i) ==
    <<IF Sendable(Director(in[i].req, target).URL) THEN "REQUEST HEADERS"
      ELSE "Error dumping request headers">>
    \o (IF ~HasRequestBody(i) THEN << >>
        ELSE IF Sound(RequestStream(i)) THEN <<"REQUEST BODY">>
        ELSE <<"Error reading request body">>)
    \o <<"send">>
    \o (IF WillGetResponse(i)
        THEN <<IF in[i].up.WellFormed THEN "RESPONSE HEADERS"
               ELSE "Error dumping response headers">>
             \o (IF ResponseReadable(i)
                 THEN <<"RESPONSE BODY", "deliver">>
                 ELSE <<"Error reading response body",
                        "read error during body copy", "abort">>)
        ELSE <<"bad gateway">>)

\* C6 as stated, for the responses whose headers can be rendered: every
\* request that got a response and is through has in its log, in order, a
\* request-header block, an optional request-body block, a response-header
\* block and a response-body block, the send between the two dumps and the
\* delivery after them.
C6_AsStated ==
    \A i \in Active :
        (pc[i] = "done" /\ GotResponse(i) /\ in[i].up.WellFormed)
            => Kinds(trace[i]) \in
                 {<<"REQUEST HEADERS", "send", "RESPONSE HEADERS",
                    "RESPONSE BODY", "deliver">>,
                  <<"REQUEST HEADERS", "REQUEST BODY", "send",
                    "RESPONSE HEADERS", "RESPONSE BODY", "deliver">>}

\* C6, amended: the steps of one request happen in the order header line of
\* the request, body line of the request (if it has a body), send, header
\* line of the response, body line of the response, delivery, where a line
\* is the block or, when the headers cannot be rendered or the body cannot
\* be read, the failure logged in its place, and where a response whose
\* body could not be read is aborted instead of delivered; a request that
\* got a response and is through has all of them, the request-header line
\* being a block, and its response was delivered if and only if the
\* response-body block is in the log.
C6_Order ==
    \A i \in Active :
        /\ IsPrefix(Kinds(trace[i]), Lifecycle(i))
        /\ pc[i] = "done" => Kinds(trace[i]) = Lifecycle(i)
        /\ GotResponse(i)
              => /\ WillGetResponse(i)
                 /\ trace[i][1].kind = "REQUEST HEADERS"
                 /\ HasRequestBody(i) => trace[i][2].kind = "REQUEST BODY"
        /\ (pc[i] = "done" /\ GotResponse(i))
              => /\ HasKind(trace[i], "deliver")
                       <=> HasKind(trace[i], "RESPONSE BODY")
                 /\ HasKind(trace[i], "deliver") <=> Deref(client[i]).complete

\* C6 witness: a request with a body is through with a response whose body
\* could be read: the four blocks are in its log, around the send and
\* before the delivery.
C6_Witness ==
    /\ pc[1] = "done" /\ GotResponse(1)
    /\ Kinds(trace[1]) = <<"REQUEST HEADERS", "REQUEST BODY", "send",
                           "RESPONSE HEADERS", "RESPONSE BODY", "deliver">>

\* The dump of request i or of its response met a failure: the headers
\* could not be rendered, the body could not be read, or a body declared
\* gzip could not be decompressed.
DumpFailed(i) ==
    \/ HasKind(trace[i], "Error dumping request headers")
    \/ HasKind(trace[i], "Error reading request body")
    \/ HasKind(trace[i], "Error dumping response headers")
    \/ HasKind(trace[i], "Error reading response body")
    \/ /\ HasRequestBody(i) /\ RequestEncoding(i) = "gzip"
       /\ RequestStream(i).data \notin GzipData
    \/ /\ GotResponse(i) /\ ResponseEncoding(i) = "gzip"
       /\ in[i].up.Body.data \notin GzipData

\* C7: no failure of a dump reaches the proxy's control flow.  RoundTrip
\* calls the underlying transport once, after the dump and whatever the dump
\* met, and returns the transport's result as it is; the response hook is
\* called once for a response and returns no error, so that the forwarding
\* engine goes on to copy the response to the client and never answers a
\* response with its gateway error.
C7_BestEffort ==
    \A i \in Active :
        /\ rt[i].calls = IF RequestDumped(i) /\ pc[i] # "send" THEN 1 ELSE 0
        /\ rt[i].ret = rt[i].out
        /\ rt[i].calls = 1
              => /\ HasKind(trace[i], "send")
                 /\ rt[i].out.err = Nil <=> WillGetResponse(i)
                 /\ rt[i].out.err = Nil
                       => Deref(rt[i].ret.resp).Status = in[i].up.Status
        /\ hook[i].err = Nil
        /\ hook[i].calls = IF GotResponse(i) /\ pc[i] \in {"deliver", "done"}
                           THEN 1 ELSE 0
        /\ GotResponse(i)
              => /\ pc[i] # "errorHandler"
                 /\ ~HasKind(trace[i], "bad gateway")
        /\ (pc[i] = "done" /\ GotResponse(i))
              => Deref(client[i]).Status \in {in[i].up.Status, ""}

\* C7 witness: the response of request 1 could be rendered neither in its
\* headers nor in its body; the transport was called once, the hook once,
\* and the hook returned no error, so that the forwarding engine went on to
\* the copy of the response (which then failed on the body).
C7_Witness ==
    /\ pc[1] = "done" /\ GotResponse(1)
    /\ HasKind(trace[1], "Error dumping response headers")
    /\ HasKind(trace[1], "Error reading response body")
    /\ DumpFailed(1)
    /\ rt[1].calls = 1 /\ hook[1] = [calls |-> 1, err |-> Nil]
    /\ HasKind(trace[1], "read error during body copy")

\* C8: when the underlying transport returns an error (the upstream is
\* unreachable), the request was dumped before the send, no line of a
\* response dump is ever logged for it, the hook is not called, and the
\* client receives 502 Bad Gateway.
C8_Unreachable ==
    \A i \in Active :
        (rt[i].calls = 1 /\ rt[i].out.err # Nil)
            => /\ pc[i] \in {"errorHandler", "done"}
               /\ \E k \in 1..Len(trace[i]) :
                     /\ trace[i][k].kind = "send"
                     /\ Kinds(SubSeq(trace[i], 1, k)) =
                           SubSeq(Lifecycle(i), 1, k)
                     /\ k >= 2
               /\ ~HasKind(trace[i], "RESPONSE HEADERS")
               /\ ~HasKind(trace[i], "RESPONSE BODY")
               /\ ~HasKind(trace[i], "Error dumping response headers")
               /\ ~HasKind(trace[i], "Error reading response body")
               /\ ~HasKind(trace[i], "deliver")
               /\ ~HasKind(trace[i], "abort")
               /\ hook[i].calls = 0
               /\ pc[i] = "done"
                     => client[i] = Ptr(Delivered("502 Bad Gateway", << >>))

\* C8 witness: the upstream of request 1 was unreachable; its headers and
\* its body are in the log, then the send, and the client got the 502.
C8_Witness ==
    /\ pc[1] = "done" /\ ~in[1].up.reachable
    /\ rt[1].out.err = Ptr("connection refused")
    /\ Kinds(trace[1]) = <<"REQUEST HEADERS", "REQUEST BODY", "send",
                           "bad gateway">>
    /\ Deref(client[1]).Status = "502 Bad Gateway"

\* The locals of the dump of request i hold a failed capture.
CaptureFailed(i) ==
    frame[Frame(i)] = [NoFrame EXCEPT !.err = Ptr("read error")]

\* The stream s once it has been read as far as it can be read and closed.
Consumed(s) == Close(ReadAll(s).s)

\* What C9 says of the capture and of the dump: a capture fails exactly when
\* the read of the body stream fails; it then produces no raw bytes, no
\* decoded bytes and no restore factory; the dump logs the failure and no
\* body block and leaves the message with the original stream; on every
\* path the original stream has been read and closed.
CaptureOrFailure(i) ==
    /\ pc[i] = "restoreRequestBody"
          => /\ origReq[i] = Ptr(Consumed(RequestStream(i)))
             /\ frame[Frame(i)].err # Nil <=> ~Sound(RequestStream(i))
             /\ ~Sound(RequestStream(i)) => CaptureFailed(i)
    /\ pc[i] = "restoreResponseBody"
          => /\ origResp[i] = Ptr(Consumed(ResponseStream(i)))
             /\ frame[Frame(i)].err # Nil <=> ~ResponseReadable(i)
             /\ ~ResponseReadable(i) => CaptureFailed(i)
    /\ (pc[i] = "send" /\ HasRequestBody(i) /\ ~Sound(RequestStream(i)))
          => /\ HasKind(trace[i], "Error reading request body")
             /\ ~HasKind(trace[i], "REQUEST BODY")
             /\ req[i].Body = origReq[i]
             /\ ReadAll(Deref(req[i].Body)).data = << >>
    /\ (pc[i] = "deliver" /\ ~ResponseReadable(i))
          => /\ HasKind(trace[i], "Error reading response body")
             /\ ~HasKind(trace[i], "RESPONSE BODY")
             /\ resp[i].Body = origResp[i]
             /\ ReadAll(Deref(resp[i].Body)).data = << >>
    /\ (wire[i] # Nil /\ ~Sound(RequestStream(i))) => wire[i] = Ptr(<< >>)

\* C9 as stated: the capture and the dump as above, and the message goes on
\* with an empty or missing body: a response whose capture failed reaches
\* the client with the upstream's status and no body.
C9_AsStated ==
    \A i \in Active :
        /\ CaptureOrFailure(i)
        /\ (pc[i] = "done" /\ GotResponse(i) /\ ~ResponseReadable(i))
              => client[i] = Ptr(Delivered(in[i].up.Status, << >>))

\* C9, amended: the capture and the dump as above; the next read of the
\* closed stream fails, so that the message does not go on: for a request
\* the transport returns an error and the client gets the gateway error,
\* and for a response the forwarding engine logs the failed copy and aborts
\* the response, the client getting no body byte and no status line (or,
\* of a response of unknown length, at most the status line) before the
\* connection is cut.
C9_ReadFailure ==
    \A i \in Active :
        /\ CaptureOrFailure(i)
        /\ (rt[i].calls = 1 /\ HasRequestBody(i) /\ ~Sound(RequestStream(i)))
              => /\ rt[i].out.err # Nil
                 /\ pc[i] = "done"
                       => client[i] = Ptr(Delivered("502 Bad Gateway", << >>))
        /\ (pc[i] = "done" /\ GotResponse(i) /\ ~ResponseReadable(i))
              => /\ HasKind(trace[i], "read error during body copy")
                 /\ Deref(client[i]) \in
                       {Aborted("", << >>)}
                       \cup (IF Uncompressed(i)
                             THEN {Aborted(in[i].up.Status, << >>)} ELSE {})

\* C9 witness: the response body of request 1 broke after its first byte;
\* the capture failed with nothing produced, the failure is in the log and
\* no body block, the original stream is closed and still on the response,
\* and the client got nothing.
C9_Witness ==
    /\ pc[1] = "done" /\ GotResponse(1)
    /\ in[1].up.Body.failAt = 1 /\ ~Uncompressed(1)
    /\ CaptureFailed(1)
    /\ HasKind(trace[1], "Error reading response body")
    /\ ~HasKind(trace[1], "RESPONSE BODY")
    /\ Deref(origResp[1]).closed /\ Deref(origResp[1]).pos = 1
    /\ resp[1].Body = origResp[1]
    /\ client[1] = Ptr(Aborted("", << >>))

\* The request dump of request i left the body on the request and the body
\* line in the log as a capture of the client's body does.
RequestBodyHandled(i) ==
    IF Sound(RequestStream(i))
    THEN /\ ReadAll(Deref(req[i].Body)) =
               [data |-> RequestStream(i).data, err |-> FALSE,
                s |-> Drained(RequestStream(i).data)]
         /\ BodiesLogged(trace[i], "REQUEST BODY") =
               {Expected(RequestStream(i).data, RequestEncoding(i))}
    ELSE /\ HasKind(trace[i], "Error reading request body")
         /\ Deref(req[i].Body).closed

\* The same for the response dump and the upstream's body.
ResponseBodyHandled(i) ==
    IF ResponseReadable(i)
    THEN /\ ReadAll(Deref(resp[i].Body)) =
               [data |-> ResponseBytes(i), err |-> FALSE,
                s |-> Drained(ResponseBytes(i))]
         /\ BodiesLogged(trace[i], "RESPONSE BODY") =
               {Expected(ResponseBytes(i), ResponseEncoding(i))}
    ELSE /\ HasKind(trace[i], "Error reading response body")
         /\ Deref(resp[i].Body).closed

\* C10: when the headers of a request or of a response cannot be rendered,
\* the dump logs the failure and no header block, and captures, logs and
\* restores the body as it does after a successful header dump.
C10_HeaderFailure ==
    \A i \in Active :
        /\ (pc[i] = "send" /\ ~Sendable(req[i].URL))
              => /\ trace[i][1].kind = "Error dumping request headers"
                 /\ ~HasKind(trace[i], "REQUEST HEADERS")
                 /\ HasRequestBody(i) => RequestBodyHandled(i)
        /\ (pc[i] = "send" /\ Sendable(req[i].URL) /\ HasRequestBody(i))
              => RequestBodyHandled(i)
        /\ (pc[i] = "deliver" /\ ~resp[i].WellFormed)
              => /\ HasKind(trace[i], "Error dumping response headers")
                 /\ ~HasKind(trace[i], "RESPONSE HEADERS")
                 /\ ResponseBodyHandled(i)
        /\ (pc[i] = "deliver" /\ resp[i].WellFormed) => ResponseBodyHandled(i)

\* C10 witness: the headers of the response of request 1 could not be
\* rendered; the failure is in the log and no header block, and the body,
\* which the upstream declared gzip to a client that accepts gzip, was
\* captured and logged decompressed all the same, and the restored stream
\* with the compressed bytes is on the response.
C10_Witness ==
    /\ pc[1] = "deliver" /\ ~resp[1].WellFormed
    /\ Kinds(trace[1]) = <<"REQUEST HEADERS", "REQUEST BODY", "send",
                           "Error dumping response headers", "RESPONSE BODY">>
    /\ ResponseEncoding(1) = "gzip"
    /\ Captured(1, Gz_fixed, Holds(Gz_fixed))
    /\ trace[1][5].data = Holds(Gz_fixed)
    /\ resp[1].Body = Ptr(NewReader(Gz_fixed))

====
